---- MODULE Spec2Model ----
(***************************************************************************)
(* Model of the senior-care assistant server: the Express gateway          *)
(* (src/server.js) with its rate limiter, and the chat router              *)
(* (src/unnamed/part_000, mounted as ./api/chat) with buildUserContext,    *)
(* POST / and GET /test.                                                   *)
(*                                                                         *)
(* JavaScript values are tagged records.  A string is a sequence of        *)
(* tokens; the token "\n" is the line break, every other token stands for  *)
(* a run of characters without a line break.                               *)
(***************************************************************************)
EXTENDS Integers, Sequences, FiniteSets, TLC

VARIABLES
    reqs,          \* one record per connection slot: the request in flight
    hits,          \* the limiter's store: requests counted per client IP
    issued,        \* history: requests received per client IP in the window
    now,           \* the wall clock read by new Date()
    userContexts   \* the module-level Map of src/unnamed/part_000:11

vars == <<reqs, hits, issued, now, userContexts>>

----------------------------------------------------------------------------
(* Bounds of the model *)

NumSlots == 2
MaxTime == 1
LimiterExtra == 2

----------------------------------------------------------------------------
(* JavaScript values *)

Undef == [t |-> "undefined"]
Null == [t |-> "null"]
Num(n) == [t |-> "num", n |-> n]
Bool(b) == [t |-> "bool", b |-> b]
Str(s) == [t |-> "str", s |-> s]
Arr(a) == [t |-> "arr", a |-> a]
Obj(p) == [t |-> "obj", p |-> p]

NL == "\n"

\* ToBoolean: the test of `if (x)`, `!x`, `x && y`, `x || y`, `x ? a : b`
Truthy(v) ==
    CASE v.t = "undefined" -> FALSE
      [] v.t = "null" -> FALSE
      [] v.t = "num" -> v.n # 0
      [] v.t = "bool" -> v.b
      [] v.t = "str" -> Len(v.s) > 0
      [] OTHER -> TRUE

\* typeof v
TypeOf(v) ==
    CASE v.t = "undefined" -> "undefined"
      [] v.t = "num" -> "number"
      [] v.t = "bool" -> "boolean"
      [] v.t = "str" -> "string"
      [] OTHER -> "object"

\* v.k throws a TypeError exactly when v is null or undefined
Nullish(v) == v.t \in {"undefined", "null"}

RECURSIVE Lookup(_, _, _)
Lookup(p, k, i) ==
    IF i = 0 THEN Undef
    ELSE IF p[i][1] = k THEN p[i][2] ELSE Lookup(p, k, i - 1)

\* v.k for a v that is not nullish: an own property of an object (the last
\* occurrence of a repeated key wins, as in JSON.parse), `length` of a string
\* or an array, undefined otherwise
Get(v, k) ==
    CASE v.t = "obj" -> Lookup(v.p, k, Len(v.p))
      [] v.t = "arr" /\ k = "length" -> Num(Len(v.a))
      [] v.t = "str" /\ k = "length" -> Num(Len(v.s))
      [] OTHER -> Undef

\* v > 0
GreaterThanZero(v) ==
    CASE v.t = "num" -> v.n > 0
      [] v.t = "bool" -> v.b
      [] OTHER -> FALSE

RECURSIVE Join(_, _)
\* Array.prototype.join on an array of strings
Join(parts, sep) ==
    IF Len(parts) = 0 THEN <<>>
    ELSE IF Len(parts) = 1 THEN parts[1]
    ELSE parts[1] \o sep \o Join(Tail(parts), sep)

RECURSIVE ToStr(_)
\* String(v), the conversion of `${v}` in a template literal
ToStr(v) ==
    CASE v.t = "undefined" -> <<"undefined">>
      [] v.t = "null" -> <<"null">>
      [] v.t = "num" -> <<ToString(v.n)>>
      [] v.t = "bool" -> IF v.b THEN <<"true">> ELSE <<"false">>
      [] v.t = "str" -> v.s
      [] v.t = "arr" ->
            Join([i \in 1..Len(v.a) |->
                    IF Nullish(v.a[i]) THEN <<>> ELSE ToStr(v.a[i])], <<",">>)
      [] OTHER -> <<"[object Object]">>

\* Object.entries(v) for a v that is not nullish, as [key, value] pairs
Entries(v) ==
    CASE v.t = "obj" -> [i \in 1..Len(v.p) |-> <<<<v.p[i][1]>>, v.p[i][2]>>]
      [] v.t = "arr" -> [i \in 1..Len(v.a) |-> <<<<ToString(i - 1)>>, v.a[i]>>]
      [] v.t = "str" -> [i \in 1..Len(v.s) |-> <<<<ToString(i - 1)>>, Str(<<v.s[i]>>)>>]
      [] OTHER -> <<>>

\* Object.keys(v).length
KeysLength(v) == Len(Entries(v))

\* the lines of a text: String.prototype.split('\n')
RECURSIVE Lines(_)
Lines(s) ==
    IF \A i \in 1..Len(s) : s[i] # NL THEN <<s>>
    ELSE LET i == CHOOSE j \in 1..Len(s) :
                    s[j] = NL /\ \A k \in 1..(j - 1) : s[k] # NL
         IN <<SubSeq(s, 1, i - 1)>> \o Lines(SubSeq(s, i + 1, Len(s)))

----------------------------------------------------------------------------
(* buildUserContext, src/unnamed/part_000:14-65 *)

\* now.toLocaleDateString('en-US', ...) and now.toLocaleTimeString('en-US', ...):
\* text without a line break, fixed by the instant
toLocaleDateString(t) == <<"date@", ToString(t)>>
toLocaleTimeString(t) == <<"time@", ToString(t)>>

DateTimeLine(t) ==
    <<"Current date and time: ">> \o toLocaleDateString(t)
        \o <<" at ">> \o toLocaleTimeString(t)

Threw == [threw |-> TRUE]
Returned(v) == [threw |-> FALSE, v |-> v]

\* the arrow function of medications.map
MedText(med) ==
    ToStr(Get(med, "name")) \o <<" at ">> \o ToStr(Get(med, "time")) \o <<" (">>
        \o (IF Truthy(Get(med, "taken")) THEN <<"taken">> ELSE <<"not taken yet">>)
        \o <<" today)">>

\* the arrow function of emergencyContacts.map
ContactText(contact) ==
    ToStr(Get(contact, "name")) \o <<": ">> \o ToStr(Get(contact, "phone"))

\* the arrow function of Object.entries(itemLocations).map
ItemText(entry) == entry[1] \o <<": ">> \o ToStr(entry[2])

\* `x && x.length > 0`
NonEmptyList(x) == Truthy(x) /\ GreaterThanZero(Get(x, "length"))

\* x.map(f) throws when x has no map method (x is not an array) or when f
\* reads a property of a null or undefined element
MapThrows(x) == x.t # "arr" \/ \E i \in 1..Len(x.a) : Nullish(x.a[i])

LocationLines(userData) ==
    LET location == Get(userData, "location") IN
    IF Truthy(location)
    THEN <<<<"User's location: ">> \o ToStr(location)>>
    ELSE <<>>

MedicationLines(userData) ==
    LET medications == Get(userData, "medications") IN
    IF NonEmptyList(medications)
    THEN <<<<"Current medications: ">>
            \o Join([i \in 1..Len(medications.a) |-> MedText(medications.a[i])],
                    <<", ">>)>>
    ELSE <<>>

ItemLines(userData) ==
    LET itemLocations == Get(userData, "itemLocations") IN
    IF Truthy(itemLocations) /\ KeysLength(itemLocations) > 0
    THEN <<<<"Item locations: ">>
            \o Join([i \in 1..KeysLength(itemLocations) |->
                        ItemText(Entries(itemLocations)[i])], <<", ">>)>>
    ELSE <<>>

WaterLines(userData) ==
    LET waterIntake == Get(userData, "waterIntake")
        waterGoal == Get(userData, "waterGoal")
    IN
    IF waterIntake.t # "undefined"
    THEN <<<<"Water intake today: ">> \o ToStr(waterIntake) \o <<" cups out of ">>
            \o ToStr(IF Truthy(waterGoal) THEN waterGoal ELSE Num(8))
            \o <<" cup daily goal">>>>
    ELSE <<>>

ContactLines(userData) ==
    LET emergencyContacts == Get(userData, "emergencyContacts") IN
    IF NonEmptyList(emergencyContacts)
    THEN <<<<"Emergency contacts: ">>
            \o Join([i \in 1..Len(emergencyContacts.a) |->
                        ContactText(emergencyContacts.a[i])], <<", ">>)>>
    ELSE <<>>

\* buildUserContext(userData) called at instant t: the text returned, or Threw
buildUserContext(userData, t) ==
    IF Nullish(userData) THEN Threw
    ELSE IF NonEmptyList(Get(userData, "medications"))
            /\ MapThrows(Get(userData, "medications")) THEN Threw
    ELSE IF NonEmptyList(Get(userData, "emergencyContacts"))
            /\ MapThrows(Get(userData, "emergencyContacts")) THEN Threw
    ELSE Returned(Join(<<DateTimeLine(t)>> \o LocationLines(userData)
                        \o MedicationLines(userData) \o ItemLines(userData)
                        \o WaterLines(userData) \o ContactLines(userData),
                       <<NL>>))

----------------------------------------------------------------------------
(* Shared pieces of the route handlers *)

NoValue == [t |-> "none"]

\* res.status(code).json(body): JSON.stringify drops the keys whose value is
\* undefined
Json(code, pairs) ==
    [code |-> code,
     body |-> Obj(SelectSeq(pairs, LAMBDA p : p[2].t # "undefined"))]

\* res.status(code).send(text)
Text(code, s) == [code |-> code, body |-> Str(s)]

\* new Date().toISOString()
toISOString(t) == <<"iso@", ToString(t)>>

\* a === n for a number literal n
StrictEquals(v, n) == v.t = "num" /\ v.n = n

\* the error object of a TypeError thrown by the handler's own code
TypeError == Obj(<< <<"message", Str(<<"TypeError">>)>> >>)

\* a[0]
First(v) ==
    CASE v.t = "arr" -> IF Len(v.a) > 0 THEN v.a[1] ELSE Undef
      [] v.t = "str" -> IF Len(v.s) > 0 THEN Str(<<v.s[1]>>) ELSE Undef
      [] OTHER -> Undef

\* ContentText reading the last content block instead of the first
ContentText_LastBlock(response) ==
    LET content == Get(response, "content") IN
    IF Nullish(content) THEN Threw
    ELSE IF Nullish(First(content)) THEN Threw
    ELSE Returned(Get(content.a[Len(content.a)], "text"))

\* response.content[0].text: the text, or Threw when content or its first
\* element is null or undefined
ContentText(response) ==
    LET content == Get(response, "content") IN
    IF Nullish(content) THEN Threw
    ELSE IF Nullish(First(content)) THEN Threw
    ELSE Returned(Get(First(content), "text"))

\* the outcome of an upstream call that has not settled, or was never made
Pending == [k |-> "pending", value |-> Undef]

\* a connection slot with no request
Idle ==
    [pc |-> "idle", ip |-> "", route |-> "", body |-> NoValue,
     handled |-> FALSE, calls |-> 0, sent |-> NoValue, outcome |-> Pending,
     sends |-> 0, res |-> NoValue, userContext |-> NoValue, nth |-> 0]

\* res.status(...).json(...) on the request q: one more response on the wire;
\* the first one is what the client receives
Send(q, res) ==
    [q EXCEPT !.sends = @ + 1, !.res = IF q.sends = 0 THEN res ELSE @]

\* anthropic.messages.create(args) on behalf of q: one more upstream call
Create(q, args) == [q EXCEPT !.calls = @ + 1, !.sent = args, !.pc = "awaiting"]

----------------------------------------------------------------------------
(* The rate limiter, src/server.js:36-44 *)

windowMs == 15 * 60 * 1000
max == 100
message == <<"Too many requests from this IP, please try again later.">>

\* KeyOf counting every client under one key
KeyOf_OneKey(ip) == "10.0.0.1"

\* the limiter's key for a request: its client IP (the library's default)
KeyOf(ip) == ip

\* the request that brought the key's count to n is over the limit
OverLimit(n) == n > max

\* app.use('/api', limiter): a request for `route` with `body` arrives from
\* `ip` on the free slot r; it is counted and either rejected or passed on
\* (free slots are taken in order, which slot serves a request being
\* immaterial; a client stops after max + LimiterExtra requests in a window)
limiter(r, ip, route, body) ==
    LET key == KeyOf(ip)
        count == hits[key] + 1
        q == [Idle EXCEPT !.ip = ip, !.route = route, !.body = body,
                          !.nth = issued[ip] + 1]
    IN
    /\ reqs[r].pc = "idle"
    /\ \A s \in 1..(r - 1) : reqs[s].pc # "idle"
    /\ issued[ip] < max + LimiterExtra
    /\ hits' = [hits EXCEPT ![key] = count]
    /\ issued' = [issued EXCEPT ![ip] = @ + 1]
    /\ reqs' = [reqs EXCEPT ![r] =
                    IF OverLimit(count)
                    THEN [Send(q, Text(429, message)) EXCEPT !.pc = "done"]
                    ELSE [q EXCEPT !.pc = "routing"]]
    /\ UNCHANGED <<now, userContexts>>

\* the window ends: the store forgets every count
WindowReset ==
    /\ \E ip \in DOMAIN hits : hits[ip] > 0
    /\ hits' = [ip \in DOMAIN hits |-> 0]
    /\ issued' = [ip \in DOMAIN issued |-> 0]
    /\ UNCHANGED <<reqs, now, userContexts>>

----------------------------------------------------------------------------
(* POST /api/chat, src/unnamed/part_000:68-147 *)

\* InvalidMessage without the typeof test
InvalidMessage_NoTypeTest(m) == ~Truthy(m)

\* `!message || typeof message !== 'string'`
InvalidMessage(m) == ~Truthy(m) \/ TypeOf(m) # "string"

\* `const { message, userData = {} } = req.body`
UserDataOf(body) ==
    IF Get(body, "userData").t = "undefined" THEN Obj(<<>>)
    ELSE Get(body, "userData")

\* the template literal of the system prompt
systemPrompt(userContext) ==
    <<"You are a helpful AI assistant for a senior adult. You help with daily tasks like:",
      NL, "- ...", NL, NL, "Guidelines for responses:", NL, "- ...", NL, NL,
      "Current user information:", NL>>
        \o userContext
        \o <<NL, NL,
             "Remember to use this information to give personalized, helpful responses.">>

ChatArgs(prompt, m) ==
    [model |-> "claude-3-sonnet-20240229", max_tokens |-> 300,
     temperature |-> "0.7", system |-> prompt,
     messages |-> <<[role |-> "user", content |-> m]>>]

\* ChatCatch passing the upstream status 401 through
ChatCatch_PassStatus(error) ==
    IF StrictEquals(Get(error, "status"), 401)
    THEN Json(401, << <<"error", Str(<<"API authentication failed">>)>>,
                      <<"fallback", Str(<<"I'm having trouble connecting right now. Please try again in a moment.">>)>> >>)
    ELSE IF StrictEquals(Get(error, "status"), 429)
    THEN Json(429, << <<"error", Str(<<"Rate limit exceeded">>)>>,
                      <<"fallback", Str(<<"I'm getting too many requests right now. Please wait a moment and try again.">>)>> >>)
    ELSE Json(500, << <<"error", Str(<<"Failed to get response">>)>>,
                      <<"fallback", Str(<<"I'm having trouble understanding right now. Could you try asking again?">>)>> >>)

\* the catch block: the response for the caught error
ChatCatch(error) ==
    IF StrictEquals(Get(error, "status"), 401)
    THEN Json(500, << <<"error", Str(<<"API authentication failed">>)>>,
                      <<"fallback", Str(<<"I'm having trouble connecting right now. Please try again in a moment.">>)>> >>)
    ELSE IF StrictEquals(Get(error, "status"), 429)
    THEN Json(429, << <<"error", Str(<<"Rate limit exceeded">>)>>,
                      <<"fallback", Str(<<"I'm getting too many requests right now. Please wait a moment and try again.">>)>> >>)
    ELSE Json(500, << <<"error", Str(<<"Failed to get response">>)>>,
                      <<"fallback", Str(<<"I'm having trouble understanding right now. Could you try asking again?">>)>> >>)

\* PostChatStep whose validation branch answers 400 without returning
PostChatStep_NoReturn(q, t) ==
    LET m == Get(q.body, "message")
        userContext == buildUserContext(UserDataOf(q.body), t)
        answered == IF InvalidMessage(m)
                    THEN Send(q, Json(400, << <<"error", Str(<<"Message is required and must be a string">>)>> >>))
                    ELSE q
    IN
    IF userContext.threw
    THEN [Send(answered, ChatCatch(TypeError)) EXCEPT !.pc = "done", !.userContext = Threw]
    ELSE Create([answered EXCEPT !.userContext = userContext],
                ChatArgs(systemPrompt(userContext.v), m))

\* the handler up to its await: validation, context, prompt, upstream call
PostChatStep(q, t) ==
    LET m == Get(q.body, "message")
        userContext == buildUserContext(UserDataOf(q.body), t)
    IN
    IF InvalidMessage(m)
    THEN [Send(q, Json(400, << <<"error", Str(<<"Message is required and must be a string">>)>> >>))
            EXCEPT !.pc = "done"]
    ELSE IF userContext.threw
    THEN [Send(q, ChatCatch(TypeError)) EXCEPT !.pc = "done", !.userContext = Threw]
    ELSE Create([q EXCEPT !.userContext = userContext],
                ChatArgs(systemPrompt(userContext.v), m))

\* PostChat keeping what each client sent in userContexts
PostChat_Session(r) ==
    /\ reqs[r].pc = "routing"
    /\ reqs[r].route = "chat"
    /\ reqs' = [reqs EXCEPT ![r] = PostChatStep([@ EXCEPT !.handled = TRUE], now)]
    /\ userContexts' = (reqs[r].ip :> UserDataOf(reqs[r].body)) @@ userContexts
    /\ UNCHANGED <<hits, issued, now>>

PostChat(r) ==
    /\ reqs[r].pc = "routing"
    /\ reqs[r].route = "chat"
    /\ reqs' = [reqs EXCEPT ![r] = PostChatStep([@ EXCEPT !.handled = TRUE], now)]
    /\ UNCHANGED <<hits, issued, now, userContexts>>

\* PostChatSettled calling the upstream API again after a rate-limit error
PostChatSettled_Retry(q, outcome, t) ==
    LET text == ContentText(outcome.value)
        res == IF outcome.k = "reject" THEN ChatCatch(outcome.value)
               ELSE IF text.threw THEN ChatCatch(TypeError)
               ELSE Json(200, << <<"response", text.v>>,
                                 <<"timestamp", Str(toISOString(t))>> >>)
    IN
    IF outcome.k = "reject" /\ StrictEquals(Get(outcome.value, "status"), 429)
        /\ q.calls < 2
    THEN Create(q, q.sent)
    ELSE [Send(q, res) EXCEPT !.pc = "done"]

\* the handler after its await, the upstream call having settled as `outcome`
PostChatSettled(q, outcome, t) ==
    LET text == ContentText(outcome.value)
        res == IF outcome.k = "reject" THEN ChatCatch(outcome.value)
               ELSE IF text.threw THEN ChatCatch(TypeError)
               ELSE Json(200, << <<"response", text.v>>,
                                 <<"timestamp", Str(toISOString(t))>> >>)
    IN [Send(q, res) EXCEPT !.pc = "done"]

PostChatResume(r, outcome) ==
    /\ reqs[r].pc = "awaiting"
    /\ reqs[r].route = "chat"
    /\ reqs' = [reqs EXCEPT ![r] =
                    PostChatSettled([@ EXCEPT !.outcome = outcome], outcome, now)]
    /\ UNCHANGED <<hits, issued, now, userContexts>>

----------------------------------------------------------------------------
(* GET /api/chat/test, src/unnamed/part_000:150-176 *)

TestArgs ==
    [model |-> "claude-3-sonnet-20240229", max_tokens |-> 50,
     messages |-> <<[role |-> "user",
                     content |-> <<"Say hello and confirm you are working.">>]>>]

\* TestCatch following the failure taxonomy of the chat endpoint
TestCatch_ChatTaxonomy(error) ==
    Json(IF StrictEquals(Get(error, "status"), 429) THEN 429 ELSE 500,
         << <<"status", Str(<<"error">>)>>,
            <<"message", Str(<<"Claude API test failed">>)>>,
            <<"error", Get(error, "message")>> >>)

\* the catch block of the test endpoint
TestCatch(error) ==
    Json(500, << <<"status", Str(<<"error">>)>>,
                 <<"message", Str(<<"Claude API test failed">>)>>,
                 <<"error", Get(error, "message")>> >>)

GetTest(r) ==
    /\ reqs[r].pc = "routing"
    /\ reqs[r].route = "test"
    /\ reqs' = [reqs EXCEPT ![r] = Create([@ EXCEPT !.handled = TRUE], TestArgs)]
    /\ UNCHANGED <<hits, issued, now, userContexts>>

GetTestSettled(q, outcome) ==
    LET text == ContentText(outcome.value)
        res == IF outcome.k = "reject" THEN TestCatch(outcome.value)
               ELSE IF text.threw THEN TestCatch(TypeError)
               ELSE Json(200, << <<"status", Str(<<"success">>)>>,
                                 <<"message", Str(<<"Claude API is working correctly">>)>>,
                                 <<"response", text.v>> >>)
    IN [Send(q, res) EXCEPT !.pc = "done"]

GetTestResume(r, outcome) ==
    /\ reqs[r].pc = "awaiting"
    /\ reqs[r].route = "test"
    /\ reqs' = [reqs EXCEPT ![r] =
                    GetTestSettled([@ EXCEPT !.outcome = outcome], outcome)]
    /\ UNCHANGED <<hits, issued, now, userContexts>>

----------------------------------------------------------------------------
(* GET /api/health, src/server.js:57-63 *)

Health(r) ==
    /\ reqs[r].pc = "routing"
    /\ reqs[r].route = "health"
    /\ reqs' = [reqs EXCEPT ![r] =
                    [Send([@ EXCEPT !.handled = TRUE],
                          Json(200, << <<"status", Str(<<"healthy">>)>>,
                                       <<"timestamp", Str(toISOString(now))>>,
                                       <<"uptime", Num(now)>> >>))
                        EXCEPT !.pc = "done"]]
    /\ UNCHANGED <<hits, issued, now, userContexts>>

----------------------------------------------------------------------------
(* The environment: the clock, the clients, the upstream model API *)

Tick ==
    /\ now < MaxTime
    /\ now' = now + 1
    /\ UNCHANGED <<reqs, hits, issued, userContexts>>

\* the response has been delivered and the connection serves the next request
Close(r) ==
    /\ reqs[r].pc = "done"
    /\ reqs' = [reqs EXCEPT ![r] = Idle]
    /\ UNCHANGED <<hits, issued, now, userContexts>>

Slots == 1..NumSlots
IPs == {"10.0.0.1", "10.0.0.2"}
Client == "10.0.0.1"

Resolved(content) ==
    [k |-> "resolve", value |-> Obj(<< <<"content", content>> >>)]
Rejected(pairs) == [k |-> "reject", value |-> Obj(pairs)]

TextBlock(s) == Obj(<< <<"type", Str(<<"text">>)>>, <<"text", Str(s)>> >>)

OkHello == Resolved(Arr(<<TextBlock(<<"Hello! I am working.">>)>>))
OkTwoBlocks ==
    Resolved(Arr(<<TextBlock(<<"Your keys are", NL, "on the table.">>),
                   TextBlock(<<"second block">>)>>))
EmptyContent == Resolved(Arr(<<>>))
AuthenticationError ==
    Rejected(<< <<"status", Num(401)>>, <<"message", Str(<<"401 invalid x-api-key">>)>> >>)
RateLimitError ==
    Rejected(<< <<"status", Num(429)>>, <<"message", Str(<<"429 rate_limit_error">>)>> >>)
InternalServerError ==
    Rejected(<< <<"status", Num(500)>>, <<"message", Str(<<"500 api_error">>)>> >>)
APIConnectionError ==
    Rejected(<< <<"message", Str(<<"Connection error.">>)>> >>)

\* how a call of anthropic.messages.create can settle
Outcomes ==
    {OkHello, OkTwoBlocks, EmptyContent, AuthenticationError, RateLimitError,
     InternalServerError, APIConnectionError}

Request(route, body) == [route |-> route, body |-> body]
Body(pairs) == Request("chat", Obj(pairs))

Hi == Str(<<"Where are my keys?">>)

\* the requests a client sends
Requests ==
    {Body(<<>>),
     Body(<< <<"message", Null>> >>),
     Body(<< <<"message", Num(42)>> >>),
     Body(<< <<"message", Str(<<>>)>> >>),
     Body(<< <<"message", Hi>> >>),
     Body(<< <<"message", Hi>>,
             <<"userData", Obj(<< <<"location", Str(<<"Home">>)>>,
                                  <<"waterIntake", Num(3)>> >>)>> >>),
     Body(<< <<"message", Hi>>,
             <<"userData", Obj(<< <<"medications", Str(<<"aspirin">>)>> >>)>> >>),
     Body(<< <<"message", Hi>>, <<"userData", Null>> >>),
     Request("test", Obj(<<>>)),
     Request("health", Obj(<<>>))}

Init ==
    /\ reqs = [r \in Slots |-> Idle]
    /\ hits = [ip \in IPs |-> 0]
    /\ issued = [ip \in IPs |-> 0]
    /\ now = 0
    /\ userContexts = <<>>

Next ==
    \/ \E r \in Slots, q \in Requests : limiter(r, Client, q.route, q.body)
    \/ \E r \in Slots : PostChat(r)
    \/ \E r \in Slots, outcome \in Outcomes : PostChatResume(r, outcome)
    \/ \E r \in Slots : GetTest(r)
    \/ \E r \in Slots, outcome \in Outcomes : GetTestResume(r, outcome)
    \/ \E r \in Slots : Health(r)
    \/ Tick

Spec == Init /\ [][Next]_vars

----------------------------------------------------------------------------
(* The limiter under a long run of requests: one connection, reused, two
   clients, the window ending at any time *)

LimiterRequests ==
    {Body(<< <<"message", Hi>> >>), Body(<<>>), Request("test", Obj(<<>>)),
     Request("health", Obj(<<>>))}

LimiterOutcomes == {OkHello, RateLimitError}

NextLimiter ==
    \/ \E ip \in IPs, q \in LimiterRequests : limiter(1, ip, q.route, q.body)
    \/ PostChat(1)
    \/ \E outcome \in LimiterOutcomes : PostChatResume(1, outcome)
    \/ GetTest(1)
    \/ \E outcome \in LimiterOutcomes : GetTestResume(1, outcome)
    \/ Health(1)
    \/ Close(1)
    \/ WindowReset

SpecLimiter == Init /\ [][NextLimiter]_vars

----------------------------------------------------------------------------
(* buildUserContext over a range of userData: one request, its userData
   drawn from RenderUserData *)

Reverse(s) == [i \in 1..Len(s) |-> s[Len(s) + 1 - i]]

Med(name, time, taken) ==
    Obj(<< <<"name", Str(<<name>>)>>, <<"time", Str(<<time>>)>>,
           <<"taken", Bool(taken)>> >>)
Contact(name, phone) ==
    Obj(<< <<"name", Str(<<name>>)>>, <<"phone", Str(<<phone>>)>> >>)

\* the key absent, or present with one of the values
Field(k, values) == {<<>>} \cup {<< <<k, v>> >> : v \in values}

LocationFields ==
    Field("location", {Str(<<>>), Str(<<"Home">>),
                       Str(<<"Home", NL, "Current medications: none">>)})
MedicationFields ==
    Field("medications",
          {Arr(<<>>), Arr(<<Med("Aspirin", "8:00 AM", TRUE)>>),
           Arr(<<Med("Aspirin", "8:00 AM", TRUE), Med("Statin", "9:00 PM", FALSE)>>),
           Str(<<"Aspirin">>), Arr(<<Null>>)})
ItemFields ==
    Field("itemLocations",
          {Obj(<<>>), Obj(<< <<"keys", Str(<<"hall table">>)>> >>),
           Obj(<< <<"keys", Str(<<"hall table">>)>>,
                  <<"glasses", Str(<<"nightstand">>)>> >>),
           Arr(<<Str(<<"keys">>)>>)})
WaterFields ==
    {<<>>, << <<"waterGoal", Num(6)>> >>}
    \cup {<< <<"waterIntake", v>> >> : v \in {Num(0), Num(3), Null}}
    \cup {<< <<"waterIntake", Num(3)>>, <<"waterGoal", g>> >> : g \in {Num(6), Num(0)}}
ContactFields ==
    Field("emergencyContacts",
          {Arr(<<>>), Arr(<<Contact("Ann", "555-0100")>>), Num(5)})

RenderUserData ==
    LET inOrder == {a \o b \o c \o d \o e :
                        a \in LocationFields, b \in MedicationFields,
                        c \in ItemFields, d \in WaterFields, e \in ContactFields}
    IN {Obj(p) : p \in inOrder} \cup {Obj(Reverse(p)) : p \in inOrder}

NextRender ==
    \/ /\ reqs[1].pc = "idle"
       /\ \E u \in RenderUserData :
            limiter(1, Client, "chat",
                    Obj(<< <<"message", Hi>>, <<"userData", u>> >>))
    \/ PostChat(1)
    \/ PostChatResume(1, OkHello)
    \/ Tick

SpecRender == Init /\ [][NextRender]_vars

----------------------------------------------------------------------------
(* Vocabulary of the properties *)

\* the request of slot r was answered by a route handler
Answered(r) == reqs[r].pc = "done" /\ reqs[r].handled

Chat(r) == reqs[r].route = "chat"

ValidMessage(r) ==
    Get(reqs[r].body, "message").t = "str" /\ Len(Get(reqs[r].body, "message").s) > 0

\* field k of the JSON body of the response of slot r
ResField(r, k) == Get(reqs[r].res.body, k)

NonEmptyText(v) == v.t = "str" /\ Len(v.s) > 0

GenericFallback ==
    Str(<<"I'm having trouble understanding right now. Could you try asking again?">>)

\* the upstream call of slot r failed: it was rejected, or it resolved with
\* a response that has no first content block
Failed(r) ==
    \/ reqs[r].outcome.k = "reject"
    \/ reqs[r].outcome.k = "resolve"
        /\ Nullish(First(Get(reqs[r].outcome.value, "content")))

FailedWith(r, status) ==
    /\ reqs[r].outcome.k = "reject"
    /\ StrictEquals(Get(reqs[r].outcome.value, "status"), status)

Succeeded(r) == reqs[r].outcome.k = "resolve" /\ ~Failed(r)

----------------------------------------------------------------------------
(* C1 *)

\* C1: a chat request whose message is absent, null or not a string is
\* answered with 400 and an error payload, and no upstream call is made for it
C1_InvalidMessageRejected ==
    \A r \in Slots :
        Chat(r) /\ reqs[r].handled /\ Get(reqs[r].body, "message").t # "str" =>
            /\ reqs[r].calls = 0
            /\ reqs[r].pc = "done"
            /\ reqs[r].sends = 1
            /\ reqs[r].res.code = 400
            /\ NonEmptyText(ResField(r, "error"))

C1_Witness ==
    \E r \in Slots :
        /\ Answered(r) /\ Chat(r)
        /\ Get(reqs[r].body, "message").t = "num"
        /\ reqs[r].res.code = 400

(* C2 *)

\* C2: whatever the outcome of the upstream call, at most one upstream call
\* is made on behalf of a chat request
C2_AtMostOneUpstreamCall ==
    \A r \in Slots : Chat(r) => reqs[r].calls <= 1

C2_Witness ==
    \E r \in Slots :
        Answered(r) /\ Chat(r) /\ FailedWith(r, 429) /\ reqs[r].calls = 1

(* C3 *)

\* C3: a chat request with a valid message whose upstream call fails is
\* answered 500 with a fallback on status 401, 429 with a fallback of its own
\* on status 429, and 500 with the generic fallback otherwise; every such
\* answer carries error and fallback
C3_FailureTaxonomy ==
    \A r \in Slots :
        Answered(r) /\ Chat(r) /\ ValidMessage(r) /\ reqs[r].calls = 1 /\ Failed(r) =>
            /\ NonEmptyText(ResField(r, "error"))
            /\ NonEmptyText(ResField(r, "fallback"))
            /\ FailedWith(r, 401) => reqs[r].res.code = 500
            /\ FailedWith(r, 429) =>
                /\ reqs[r].res.code = 429
                /\ ResField(r, "fallback") # GenericFallback
                /\ \A s \in Slots :
                        Answered(s) /\ Chat(s) /\ reqs[s].calls = 1 /\ Failed(s)
                            /\ ~FailedWith(s, 429) =>
                                ResField(s, "fallback") # ResField(r, "fallback")
            /\ ~FailedWith(r, 401) /\ ~FailedWith(r, 429) =>
                /\ reqs[r].res.code = 500
                /\ ResField(r, "fallback") = GenericFallback

C3_Witness ==
    \E r, s \in Slots :
        /\ Answered(r) /\ Chat(r) /\ FailedWith(r, 429) /\ reqs[r].res.code = 429
        /\ Answered(s) /\ Chat(s) /\ FailedWith(s, 401) /\ reqs[s].res.code = 500

(* C4 *)

\* C4: a chat request with a valid message whose upstream call succeeds is
\* answered 200 with the text the upstream model returned and a timestamp
\* the server read from its clock
C4_SuccessResponse ==
    \A r \in Slots :
        Answered(r) /\ Chat(r) /\ ValidMessage(r) /\ reqs[r].calls = 1 /\ Succeeded(r) =>
            /\ reqs[r].res.code = 200
            /\ ResField(r, "response")
                = Get(Get(reqs[r].outcome.value, "content").a[1], "text")
            /\ \E t \in 0..now : ResField(r, "timestamp") = Str(toISOString(t))

C4_Witness ==
    \E r \in Slots :
        /\ Answered(r) /\ Chat(r) /\ reqs[r].outcome = OkTwoBlocks
        /\ reqs[r].res.code = 200
        /\ ResField(r, "timestamp") = Str(toISOString(1))

(* C5 *)

\* the userData of the data model: every optional field absent or of its type
IsList(v) == v.t = "arr" /\ \A i \in 1..Len(v.a) : v.a[i].t = "obj"
AbsentOr(v, ok) == v.t = "undefined" \/ ok
WellFormed(u) ==
    /\ u.t = "obj"
    /\ AbsentOr(Get(u, "location"), Get(u, "location").t = "str")
    /\ AbsentOr(Get(u, "medications"), IsList(Get(u, "medications")))
    /\ AbsentOr(Get(u, "itemLocations"), Get(u, "itemLocations").t = "obj")
    /\ AbsentOr(Get(u, "waterIntake"), Get(u, "waterIntake").t = "num")
    /\ AbsentOr(Get(u, "waterGoal"), Get(u, "waterGoal").t = "num")
    /\ AbsentOr(Get(u, "emergencyContacts"), IsList(Get(u, "emergencyContacts")))

\* the labels of the populated fields of u, in the fixed order
PopulatedLabels(u) ==
    (IF NonEmptyText(Get(u, "location")) THEN <<"User's location: ">> ELSE <<>>)
    \o (IF Get(u, "medications").t = "arr" /\ Len(Get(u, "medications").a) > 0
        THEN <<"Current medications: ">> ELSE <<>>)
    \o (IF Get(u, "itemLocations").t = "obj" /\ Len(Get(u, "itemLocations").p) > 0
        THEN <<"Item locations: ">> ELSE <<>>)
    \o (IF Get(u, "waterIntake").t = "num" THEN <<"Water intake today: ">> ELSE <<>>)
    \o (IF Get(u, "emergencyContacts").t = "arr"
            /\ Len(Get(u, "emergencyContacts").a) > 0
        THEN <<"Emergency contacts: ">> ELSE <<>>)

StartsWith(line, label) == Len(line) > 0 /\ line[1] = label

\* C5: with N of the five optional fields populated, buildUserContext
\* returns exactly N+1 lines: the date/time line, then one line per populated
\* field in the fixed order, whatever the key order of userData
C5_LinePerPopulatedField ==
    \A r \in Slots :
        Chat(r) /\ reqs[r].handled /\ WellFormed(UserDataOf(reqs[r].body)) =>
            /\ ~reqs[r].userContext.threw
            /\ LET labels == PopulatedLabels(UserDataOf(reqs[r].body))
                   lines == Lines(reqs[r].userContext.v)
               IN /\ Len(lines) = Len(labels) + 1
                  /\ StartsWith(lines[1], "Current date and time: ")
                  /\ \A i \in 1..Len(labels) : StartsWith(lines[i + 1], labels[i])

(* C6 *)

\* C6: rendering the context never throws: a malformed optional field is
\* skipped, and a request with a valid message proceeds to the upstream call
C6_MalformedFieldsSkipped ==
    \A r \in Slots :
        Chat(r) /\ reqs[r].handled /\ ValidMessage(r) =>
            /\ ~reqs[r].userContext.threw
            /\ reqs[r].calls = 1

(* C7 *)

\* C7: a request that arrives after its client IP has issued 100 requests in
\* the window is rejected with the configured message, reaches no route
\* handler and causes no upstream call; no request is rejected on account of
\* another IP's requests
C7_RateLimitPerIP ==
    \A r \in Slots :
        reqs[r].pc # "idle" =>
            /\ reqs[r].nth > 100 =>
                /\ reqs[r].pc = "done"
                /\ ~reqs[r].handled
                /\ reqs[r].calls = 0
                /\ reqs[r].res.code = 429
                /\ reqs[r].res.body
                    = Str(<<"Too many requests from this IP, please try again later.">>)
            /\ reqs[r].nth <= 100 => reqs[r].pc # "done" \/ reqs[r].handled

C7_Witness ==
    \E r \in Slots :
        /\ reqs[r].nth = 102
        /\ reqs[r].ip = "10.0.0.1"
        /\ reqs[r].res.code = 429
        /\ ~reqs[r].handled
        /\ issued["10.0.0.2"] \in 1..100
        /\ hits["10.0.0.2"] = issued["10.0.0.2"]

(* C8 *)

Test(r) == reqs[r].route = "test"

\* C8, as stated: the test endpoint answers 500 on an upstream 401, 429 on an
\* upstream 429, 500 on any other failure, and 200 with status "success" on
\* success
C8_TestSameTaxonomy ==
    \A r \in Slots :
        Answered(r) /\ Test(r) =>
            /\ FailedWith(r, 401) => reqs[r].res.code = 500
            /\ FailedWith(r, 429) => reqs[r].res.code = 429
            /\ Failed(r) /\ ~FailedWith(r, 401) /\ ~FailedWith(r, 429) =>
                reqs[r].res.code = 500
            /\ Succeeded(r) =>
                reqs[r].res.code = 200 /\ ResField(r, "status") = Str(<<"success">>)

\* C8, amended: the test endpoint answers 500 with status "error" on every
\* upstream failure, 429 included, and 200 with status "success" on success
C8_TestFailureIs500 ==
    \A r \in Slots :
        Answered(r) /\ Test(r) =>
            /\ Failed(r) =>
                reqs[r].res.code = 500 /\ ResField(r, "status") = Str(<<"error">>)
            /\ Succeeded(r) =>
                reqs[r].res.code = 200 /\ ResField(r, "status") = Str(<<"success">>)

C8_Witness ==
    \E r \in Slots :
        Answered(r) /\ Test(r) /\ FailedWith(r, 429) /\ reqs[r].res.code = 500

(* C9 *)

\* the JSON body of the response of slot r without its timestamp
Payload(r) ==
    SelectSeq(reqs[r].res.body.p, LAMBDA p : p[1] # "timestamp")

C10_ExactlyOneResponse ==
    \A r \in Slots :
        Chat(r) /\ reqs[r].handled =>
            /\ reqs[r].pc \in {"awaiting", "done"}
            /\ reqs[r].sends <= 1
            /\ reqs[r].pc = "awaiting" => reqs[r].sends = 0 /\ reqs[r].calls = 1
            /\ reqs[r].pc = "done" =>
                reqs[r].sends = 1 /\ reqs[r].res.code \in {200, 400, 429, 500}

C10_Witness ==
    \E r \in Slots :
        /\ Answered(r) /\ Chat(r)
        /\ reqs[r].outcome = EmptyContent
        /\ reqs[r].sends = 1
        /\ reqs[r].res.code = 500

====
